---- MODULE Spec2Model ----
(***************************************************************************)
(* A model of the radar visual of src/src/visual.ts (class Visual): the    *)
(* data transformation (transformData), the randomized blip placement      *)
(* (setBlipCoordinates / generateBlipCoordinates / coordinatesAreFree),    *)
(* the rendering done by update, and the interactive handlers.             *)
(*                                                                         *)
(* Conventions                                                             *)
(*  - JavaScript arrays are sequences; a JavaScript index i is i+1 here,   *)
(*    and indexOf's -1 ("absent") is 0.                                    *)
(*  - undefined is the string "undefined".                                 *)
(*  - Angles are exact rationals: for a radar of N sectors the unit is     *)
(*    2*pi / (N * SectorArc), so every sector spans SectorArc units and    *)
(*    pi/16 is N * RandomSteps units.                                      *)
(*  - Distances and coordinates are in units of 1 / DistScale of a viewBox *)
(*    unit.                                                                *)
(*  - Math.random() is a random source read from a periodic tape of        *)
(*    values k / RandomSteps (k in 0 .. RandomSteps-1); the tape is chosen *)
(*    arbitrarily when the visual is constructed.                          *)
(***************************************************************************)
EXTENDS Integers, Sequences, FiniteSets, TLC

(***************************************************************************)
(* Bounds of the model.                                                    *)
(***************************************************************************)
\* rows of a table handed to update in Spec
MaxRows == 2
\* rows of a table handed to transformData in SpecTransform
MaxRowsT == 3
\* sectors of the tables of SpecLayout
MaxSectorsL == 17
\* Math.random() returns k / RandomSteps, k in 0 .. RandomSteps - 1
RandomSteps == 2
\* period of the random tape
TapeLen == 3
\* update calls in one life of the visual
MaxUpdates == 2

(***************************************************************************)
(* Values.                                                                 *)
(***************************************************************************)
Undefined == "undefined"

Range(s) == {s[i] : i \in 1..Len(s)}

Front(s) == SubSeq(s, 1, Len(s) - 1)

Last(s) == s[Len(s)]

\* Array.prototype.indexOf: the first position of x, 0 for JavaScript's -1.
IndexOf(s, x) ==
    IF \E i \in 1..Len(s) : s[i] = x
    THEN CHOOSE i \in 1..Len(s) : s[i] = x /\ \A j \in 1..(i - 1) : s[j] # x
    ELSE 0

\* v[index]: reading index -1 of an array gives undefined.
Cell(v, index) == IF index = 0 \/ index > Len(v) THEN Undefined ELSE v[index]

\* The names every object inherits from Object.prototype: sectors[name] is
\* truthy for them although no Sector was stored under the name.
ObjectPrototypeNames ==
    {"constructor", "toString", "valueOf", "hasOwnProperty", "isPrototypeOf",
     "propertyIsEnumerable", "toLocaleString"}

\* The value of a property name that is a canonical array index, else -1:
\* for..in lists such names first, in ascending numeric order.
ArrayIndexValue(s) ==
    CASE s = "0" -> 0
      [] s = "1" -> 1
      [] s = "2" -> 2
      [] s = "3" -> 3
      [] OTHER -> -1

(***************************************************************************)
(* Domain model: Ring, Sector, Blip, Radar, ColourGenerator.               *)
(***************************************************************************)
Ring(name, order, colour) == [name |-> name, order |-> order, colour |-> colour]

ringMap ==
    [Accelerate |-> Ring("Accelerate", 1, "#C7C7C7"),
     Progress   |-> Ring("Progress", 2, "#A3A3A3"),
     Monitor    |-> Ring("Monitor", 3, "#7A7A7A"),
     Pause      |-> Ring("Pause", 4, "#525252")]

RingNames == DOMAIN ringMap

\* radar.rings: the fixed ring set, in ring order.
RadarRings ==
    <<ringMap["Accelerate"], ringMap["Progress"], ringMap["Monitor"], ringMap["Pause"]>>

SectorId(name) == name

BlipId(name) == name

\* new Sector(name): no colour, no angles, no blips yet.
Sector(name) ==
    [id |-> SectorId(name), name |-> name, colour |-> Undefined,
     startAngle |-> 0, endAngle |-> 0, blips |-> <<>>]

\* new Blip(name, ring, sector, isNew, description); sector is a non-owning
\* reference, kept as the sector's name; coordinates are <<x, y>> once set.
Blip(name, ring, sectorName, isNew, description) ==
    [id |-> BlipId(name), name |-> name, ring |-> ring, sector |-> sectorName,
     isNew |-> isNew, description |-> description, coordinates |-> <<>>]

\* sector.addBlip(blip)
AddBlip(sector, blip) == [sector EXCEPT !.blips = Append(@, blip)]

\* The colours a ColourGenerator hands out, call after call.
Palette ==
    <<"gen01", "gen02", "gen03", "gen04", "gen05", "gen06", "gen07", "gen08",
      "gen09", "gen10", "gen11", "gen12", "gen13", "gen14", "gen15", "gen16",
      "gen17", "gen18", "gen19", "gen20">>

\* colourGenerator.getColour() on its k-th call.
GetColour(k) == Palette[k]

\* Units of angle one sector spans (see the conventions above).
SectorArc == 32 * RandomSteps

\* radar.setSectorAngles(): N equal contiguous arcs from angle 0.
SetSectorAngles(sectors) ==
    [i \in 1..Len(sectors) |->
        [sectors[i] EXCEPT !.startAngle = (i - 1) * SectorArc,
                           !.endAngle = i * SectorArc]]

NoRadar == [defined |-> FALSE, sectors |-> <<>>]

\* radar.blips: the blips of all sectors, flattened in sector order.
RECURSIVE FlattenBlips(_)
FlattenBlips(sectors) ==
    IF sectors = <<>> THEN <<>>
    ELSE FlattenBlips(Front(sectors)) \o Last(sectors).blips

RadarBlips(r) == FlattenBlips(r.sectors)

(***************************************************************************)
(* transformData (visual.ts 60-122).                                       *)
(***************************************************************************)
ColumnMap(columns) == [i \in 1..Len(columns) |-> columns[i]]

\* The iteratee of _.sortBy throws a TypeError when ringMap has no entry
\* for the row's ring cell (ringMap[...] is undefined, .order is read).
SortIterateeThrows(rows, ringIndex) ==
    \E i \in 1..Len(rows) : Cell(rows[i], ringIndex) \notin RingNames

RowOrder(v, ringIndex) == ringMap[Cell(v, ringIndex)].order

\* _.sortBy: a stable sort, ascending by the ring's order.
RECURSIVE SortBy(_, _)
SortBy(rows, ringIndex) ==
    IF rows = <<>> THEN <<>>
    ELSE LET sorted == SortBy(Front(rows), ringIndex)
             v == Last(rows)
             p == Cardinality({i \in 1..Len(sorted) :
                     RowOrder(sorted[i], ringIndex) <= RowOrder(v, ringIndex)})
         IN  SubSeq(sorted, 1, p) \o <<v>> \o SubSeq(sorted, p + 1, Len(sorted))

\* The property names for..in visits: the array-index names in ascending
\* numeric order, then the other names in insertion order.
RECURSIVE AscendingIndexKeys(_)
AscendingIndexKeys(ks) ==
    IF ks = {} THEN <<>>
    ELSE LET m == CHOOSE k \in ks :
                    \A o \in ks : ArrayIndexValue(k) <= ArrayIndexValue(o)
         IN  <<m>> \o AscendingIndexKeys(ks \ {m})

ForInKeys(keys) ==
    AscendingIndexKeys({k \in Range(keys) : ArrayIndexValue(k) >= 0})
        \o SelectSeq(keys, LAMBDA k : ArrayIndexValue(k) < 0)

\* One call of the forEach callback (visual.ts 92-113) on row v. acc is the
\* state of the loop: the sectors object (its own keys in insertion order
\* and their values), the calls made to the colour generator, and whether a
\* TypeError was thrown.
ForEachRow(acc, v, dataView, idx) ==
    LET name == Cell(v, idx.name)
        description == Cell(v, idx.description)
        sectorName == Cell(v, idx.sector)
        ringName == Cell(v, idx.ring)
        isNew == Cell(v, idx.isNew)
        objects == dataView.objects
        own == sectorName \in Range(acc.keys)
        \* sectors[sectorName] is an inherited member of Object.prototype:
        \* truthy, so no Sector is created, and it has no addBlip
        inherited == ~own /\ sectorName \in ObjectPrototypeNames
        create == ~own /\ ~inherited
        \* dataView.metadata.objects.colourSelector is undefined
        storeThrows == create /\ objects.present /\ ~objects.colourSelector
        stored == /\ create
                  /\ objects.present
                  /\ objects.colourSelector
                  /\ SectorId(sectorName) \in DOMAIN objects.instances
        generated == create /\ ~stored
        calls == IF generated THEN acc.calls + 1 ELSE acc.calls
        colour == IF stored THEN objects.instances[SectorId(sectorName)]
                  ELSE GetColour(calls)
        sector == IF own THEN acc.val[sectorName]
                  ELSE [Sector(sectorName) EXCEPT !.colour = colour]
        blip == Blip(name, ringMap[ringName], sectorName, isNew, description)
    IN  IF acc.thrown THEN acc
        ELSE IF storeThrows \/ inherited THEN [acc EXCEPT !.thrown = TRUE]
        ELSE [thrown |-> FALSE,
              keys |-> IF own THEN acc.keys ELSE Append(acc.keys, sectorName),
              val |-> [k \in Range(acc.keys) \cup {sectorName} |->
                          IF k = sectorName THEN AddBlip(sector, blip)
                          ELSE acc.val[k]],
              calls |-> calls]

RECURSIVE ForEach(_, _, _)
ForEach(rows, dataView, idx) ==
    IF rows = <<>>
    THEN [thrown |-> FALSE, keys |-> <<>>, val |-> <<>>, calls |-> 0]
    ELSE ForEachRow(ForEach(Front(rows), dataView, idx), Last(rows), dataView, idx)

\* transformData(dataView): the Radar it returns, or thrown when a
\* TypeError leaves it; calls counts the colours the generator handed out.
TransformData(dataView) ==
    LET columnMap == ColumnMap(dataView.columns)
        idx == [name |-> IndexOf(columnMap, "name"),
                description |-> IndexOf(columnMap, "description"),
                sector |-> IndexOf(columnMap, "sector"),
                ring |-> IndexOf(columnMap, "ring"),
                isNew |-> IndexOf(columnMap, "isNew")]
    IN  IF SortIterateeThrows(dataView.rows, idx.ring)
        THEN [thrown |-> TRUE, radar |-> NoRadar, calls |-> 0]
        ELSE LET rows == SortBy(dataView.rows, idx.ring)
                 acc == ForEach(rows, dataView, idx)
                 order == ForInKeys(acc.keys)
                 sectors == [i \in 1..Len(order) |-> acc.val[order[i]]]
             IN  IF acc.thrown
                 THEN [thrown |-> TRUE, radar |-> NoRadar, calls |-> acc.calls]
                 ELSE [thrown |-> FALSE,
                       radar |-> [defined |-> TRUE,
                                  sectors |-> SetSectorAngles(sectors)],
                       calls |-> acc.calls]

(***************************************************************************)
(* Geometry and ring radii (visual.ts 127-193, 303-315, 403-405).          *)
(***************************************************************************)
\* Units per viewBox unit: ring radii, their 1.1 and 0.9 multiples and the
\* random distances k / RandomSteps between them are then whole numbers.
DistScale == 80 * RandomSteps

GetViewBoxSize == 100

CalculateBlipRadius == 2

CalculateCenter ==
    [x |-> (GetViewBoxSize * DistScale) \div 2, y |-> (GetViewBoxSize * DistScale) \div 2]

\* convertRelativeCoordinates: centre-relative <<x, y>> to the SVG's.
ConvertRelativeCoordinates(c) ==
    [x |-> c[1] + CalculateCenter.x, y |-> CalculateCenter.y - c[2]]

\* Math.sin and Math.cos in fixed point, SinScale to one: the angle is a
\* units where h is half a turn (Bhaskara's rational approximation).
SinScale == 500

SinHalfTurn(a, h) ==
    (16 * a * (h - a) * SinScale) \div (5 * h * h - 4 * a * (h - a))

Sin(angle, h) ==
    LET a == angle % (2 * h)
    IN  IF a <= h THEN SinHalfTurn(a, h) ELSE 0 - SinHalfTurn(a - h, h)

Cos(angle, h) == Sin(angle + h \div 2, h)

\* polarToCartesian: the angle is clockwise from the positive y axis.
PolarToCartesian(distance, angle, h) ==
    <<(distance * Sin(angle, h)) \div SinScale,
      (distance * Cos(angle, h)) \div SinScale>>

\* calculateRingRadii(ring)
CalculateRingRadii(ring) ==
    LET maxRadius == (GetViewBoxSize * DistScale) \div 2
        ringCount == Len(RadarRings)
    IN  [inner |-> (maxRadius * (ring.order - 1)) \div ringCount,
         outer |-> (maxRadius * ring.order) \div ringCount]

\* The square of distanceBetweenPoints.
DistanceBetweenPointsSquared(c1, c2) ==
    (c1[1] - c2[1]) * (c1[1] - c2[1]) + (c1[2] - c2[2]) * (c1[2] - c2[2])

\* blipRadius * 2.1
FreeDistance == (CalculateBlipRadius * 21 * DistScale) \div 10

\* A mutant of coordinatesAreFree: only the last placed blip is looked at.
CoordinatesAreFreeOfLast(coordinates, all) ==
    all = <<>>
    \/ DistanceBetweenPointsSquared(coordinates, all[Len(all)])
          > FreeDistance * FreeDistance

\* coordinatesAreFree: every placed blip is more than 2.1 blip radii away.
CoordinatesAreFree(coordinates, all) ==
    \A i \in 1..Len(all) :
        DistanceBetweenPointsSquared(coordinates, all[i]) > FreeDistance * FreeDistance

(***************************************************************************)
(* generateBlipCoordinates (visual.ts 255-281).                            *)
(***************************************************************************)
\* Math.PI / 16 in the angle unit of a radar of n sectors.
PiOver16(n) == n * RandomSteps

HalfTurn(n) == (n * SectorArc) \div 2

MinAngle(sector, n) == sector.startAngle + PiOver16(n)

MaxAngle(sector, n) == sector.endAngle - PiOver16(n)

MaxDistance(ring) == (CalculateRingRadii(ring).outer * 9) \div 10

\* A mutant of the minimal distance: the central ring is not special-cased.
MinDistanceWithoutCentreGuard(ring) == (CalculateRingRadii(ring).inner * 11) \div 10

MinDistance(ring) ==
    LET min_distance == (CalculateRingRadii(ring).inner * 11) \div 10
    IN  IF min_distance = 0 THEN MaxDistance(ring) \div 2 ELSE min_distance

\* Math.random() * (max - min) + min for the random value t / RandomSteps.
RandomBetween(t, min, max) == (t * (max - min)) \div RandomSteps + min

\* The attempt count past which the loop breaks (attemptCount >+ 10).
AttemptLimit == 10

\* The loop's break test after attemptCount++.
GivesUp(count) == count > AttemptLimit

\* The positions <<sector, blip>> of the radar's blips in the order
\* setBlipCoordinates visits them: sector by sector.
RECURSIVE BlipPositions(_)
BlipPositions(sectors) ==
    IF sectors = <<>> THEN <<>>
    ELSE BlipPositions(Front(sectors))
            \o [b \in 1..Len(Last(sectors).blips) |-> <<Len(sectors), b>>]

(***************************************************************************)
(* Data views the host may hand to update.                                 *)
(***************************************************************************)
\* No "objects" in dataView.metadata.
NoObjects == [present |-> FALSE, colourSelector |-> FALSE, instances |-> <<>>]

\* metadata.objects holds other objects of the Format pane, no colourSelector.
ObjectsWithoutColourSelector ==
    [present |-> TRUE, colourSelector |-> FALSE, instances |-> <<>>]

UserColour(id) ==
    CASE id = "X" -> "#FF0000"
      [] id = "1" -> "#00FF00"
      [] OTHER -> "#0000FF"

\* metadata.objects.colourSelector.$instances holds a colour for each of ids.
ObjectsWithColours(ids) ==
    [present |-> TRUE, colourSelector |-> TRUE,
     instances |-> [id \in ids |-> UserColour(id)]]

\* A table: its columns are role names in the order the host chose, each row
\* holds the cells of a record r in that order.
RowOf(columns, r) == [i \in 1..Len(columns) |-> r[columns[i]]]

DataView(columns, records, objects) ==
    [columns |-> columns,
     rows |-> [i \in 1..Len(records) |-> RowOf(columns, records[i])],
     objects |-> objects]

AllRoles == <<"name", "description", "sector", "ring", "isNew">>

\* Another column order, and a table that lacks the ring role.
SwappedRoles == <<"ring", "sector", "isNew", "name", "description">>

RolesWithoutRing == <<"name", "description", "sector", "isNew">>

RowNames == <<"A", "B", "C", "D">>

\* The i-th row of an input table: named by its position.
Record(i, sectorName, ringName) ==
    [name |-> RowNames[i], description |-> RowNames[i],
     sector |-> sectorName, ring |-> ringName,
     isNew |-> IF i = 1 THEN "true" ELSE "false"]

\* All tables of n rows whose <<sector, ring>> cells are among pairs.
Records(n, pairs) ==
    {[i \in 1..n |-> Record(i, f[i][1], f[i][2])] : f \in [1..n -> pairs]}

RecordsUpTo(n, pairs) == UNION {Records(k, pairs) : k \in 0..n}

SectorNamesT == {"X", "Y", "1", "constructor"}

RingCellsT == RingNames \cup {"Unknown"}

StoresT ==
    {NoObjects, ObjectsWithoutColourSelector}
        \cup {ObjectsWithColours(ids) : ids \in SUBSET {"X", "1"}}

\* The data views of up to n rows handed to transformData in SpecTransform.
TransformDataViews(n) ==
    {DataView(c, rs, o) :
        c \in {AllRoles, SwappedRoles, RolesWithoutRing},
        rs \in RecordsUpTo(n, SectorNamesT \X RingCellsT),
        o \in StoresT}

NoDataView == DataView(AllRoles, <<>>, NoObjects)

NotRun == [done |-> FALSE, thrown |-> FALSE, radar |-> NoRadar, calls |-> 0]

(***************************************************************************)
(* Rendering (visual.ts 198-230, 320-369, 411-478).                        *)
(***************************************************************************)
\* plotSector: a group with one path per ring of the radar.
PlotSector(sector) ==
    [id |-> sector.id,
     paths |-> [k \in 1..Len(RadarRings) |->
                   [fill |-> RadarRings[k].colour,
                    innerRadius |-> CalculateRingRadii(RadarRings[k]).inner,
                    outerRadius |-> CalculateRingRadii(RadarRings[k]).outer,
                    startAngle |-> sector.startAngle,
                    endAngle |-> sector.endAngle]]]

\* plotSectors: the children appended to #sectors.
PlotSectors(r) == [i \in 1..Len(r.sectors) |-> PlotSector(r.sectors[i])]

SectorNamed(r, name) ==
    r.sectors[CHOOSE i \in 1..Len(r.sectors) : r.sectors[i].name = name]

\* plotBlip: a group of class blip-<id> holding a circle.
PlotBlip(r, blip) ==
    [class |-> blip.id,
     cx |-> ConvertRelativeCoordinates(blip.coordinates).x,
     cy |-> ConvertRelativeCoordinates(blip.coordinates).y,
     r |-> CalculateBlipRadius * DistScale,
     fill |-> SectorNamed(r, blip.sector).colour]

\* plotBlips: the children appended to #blips.
PlotBlips(r) == [i \in 1..Len(RadarBlips(r)) |-> PlotBlip(r, RadarBlips(r)[i])]

\* The group plotLeftSidebar appends for a sector: its button and its list.
SidebarGroup(sector) ==
    [id |-> sector.id,
     button |-> [text |-> sector.name, background |-> sector.colour],
     display |-> "none",
     items |-> [j \in 1..Len(sector.blips) |->
                   [text |-> sector.blips[j].name,
                    class |-> sector.blips[j].id,
                    background |-> ""]]]

\* A mutant of plotLeftSidebar: the existing sidebar is not removed first.
PlotLeftSidebarOverOld(sidebar, r) ==
    [groups |-> sidebar.groups \o [i \in 1..Len(r.sectors) |-> SidebarGroup(r.sectors[i])],
     description |-> <<"">>]

\* plotLeftSidebar: all children removed, one group per sector appended,
\* then the (empty) #blip-description.
PlotLeftSidebar(sidebar, r) ==
    [groups |-> [i \in 1..Len(r.sectors) |-> SidebarGroup(r.sectors[i])],
     description |-> <<"">>]

\* plotRightSidebar: all children removed, one entry per ring appended.
PlotRightSidebar(legend) ==
    [k \in 1..Len(RadarRings) |->
        [colour |-> RadarRings[k].colour, text |-> RadarRings[k].name]]

\* A mutant of collapseSidebarLists: nothing is hidden.
CollapseNothing(sidebar) == sidebar

\* collapseSidebarLists: every list of the left sidebar is hidden.
CollapseSidebarLists(sidebar) ==
    [sidebar EXCEPT !.groups =
        [g \in 1..Len(sidebar.groups) |-> [sidebar.groups[g] EXCEPT !.display = "none"]]]

(***************************************************************************)
(* State.                                                                  *)
(***************************************************************************)
VARIABLES
    radar,          \* this.radar
    updateCount,    \* this.updateCount
    svg,            \* the children of the SVG: #sectors, #blips, #blip-text-container
    leftSidebar,    \* the children of #left-sidebar
    rightSidebar,   \* the children of #right-sidebar
    focused,        \* the blip marker that holds the focus, 0 for none
    pc,             \* "idle", or "placing" inside update's setBlipCoordinates
    cursor,         \* setBlipCoordinates: the blip being placed
    attemptCount,   \* generateBlipCoordinates: attemptCount
    allCoordinates, \* setBlipCoordinates: allCoordinates
    placement,      \* per placed blip: the polar draw accepted and how
    randomTape,     \* the values Math.random() returns, periodically
    randomPos,      \* the position of the next value on the tape
    thrown,         \* whether the last call of update threw to the host
    updateCalls,    \* the calls of update made by the host
    lastEvent,      \* the handler that ran last
    hovered,        \* the flat position of the sidebar row under the pointer, 0 for none
    beforeFocus,    \* what was drawn when the last focus or mouseover began
    enumerated,     \* what the last call of enumerateObjectInstances gave
    failedUpdates,  \* the calls of update that threw to the host
    tInput,         \* SpecTransform: the data view handed to transformData
    tResult         \* SpecTransform: what transformData returned

domVars == <<svg, leftSidebar, rightSidebar, focused>>

loopVars == <<pc, cursor, attemptCount, allCoordinates, placement>>

randomVars == <<randomTape, randomPos>>

hostVars == <<thrown, updateCalls, lastEvent>>

pointerVars == <<hovered, beforeFocus>>

enumVars == <<enumerated, failedUpdates>>

transformVars == <<tInput, tResult>>

vars == <<radar, updateCount, domVars, loopVars, randomVars, hostVars, transformVars,
          pointerVars, enumVars>>

Tapes == [1..TapeLen -> 0..(RandomSteps - 1)]

NoEvent == [kind |-> "none", arg |-> 0]

NoSnapshot == [taken |-> FALSE]

NotEnumerated == [called |-> FALSE, thrown |-> FALSE, instances |-> <<>>]

\* The state the constructor leaves (visual.ts 42-54): an empty SVG and
\* empty sidebars, updateCount 0, no radar.
Constructed ==
    /\ radar = NoRadar
    /\ updateCount = 0
    /\ svg = [sectors |-> <<>>, blips |-> <<>>, text |-> <<>>]
    /\ leftSidebar = [groups |-> <<>>, description |-> <<>>]
    /\ rightSidebar = <<>>
    /\ focused = 0
    /\ pc = "idle"
    /\ cursor = 0
    /\ attemptCount = 0
    /\ allCoordinates = <<>>
    /\ placement = <<>>
    /\ randomPos = 1
    /\ thrown = FALSE
    /\ updateCalls = 0
    /\ lastEvent = NoEvent
    /\ hovered = 0
    /\ beforeFocus = NoSnapshot
    /\ enumerated = NotEnumerated
    /\ failedUpdates = 0

(***************************************************************************)
(* update (visual.ts 480-512), in three parts: up to setBlipCoordinates,   *)
(* one iteration of generateBlipCoordinates' loop, and the rest.           *)
(***************************************************************************)
\* A mutant of the failed update: the SVG is cleared before transformData runs.
FailedUpdateAfterClear ==
    /\ svg' = [sectors |-> <<>>, blips |-> <<>>, text |-> <<>>]
    /\ UNCHANGED <<radar, updateCount, leftSidebar, rightSidebar, focused, loopVars, hovered>>

\* What a TypeError in transformData leaves of update: the call at line 483
\* is left before this.radar is assigned and before anything is drawn.
FailedUpdate ==
    UNCHANGED <<radar, updateCount, svg, leftSidebar, rightSidebar, focused, loopVars, hovered>>

\* update(options) up to the call of setBlipCoordinates. A TypeError in
\* transformData leaves update before this.radar is assigned.
UpdateBegin(dataView) ==
    /\ pc = "idle"
    /\ updateCalls < MaxUpdates
    /\ updateCalls' = updateCalls + 1
    /\ lastEvent' = [kind |-> "update", arg |-> 0]
    /\ LET t == TransformData(dataView)
       IN  IF t.thrown
           THEN /\ thrown' = TRUE
                /\ failedUpdates' = failedUpdates + 1
                /\ FailedUpdate
           ELSE /\ thrown' = FALSE
                /\ radar' = t.radar
                /\ svg' = [sectors |-> PlotSectors(t.radar), blips |-> <<>>, text |-> <<>>]
                /\ focused' = 0
                /\ pc' = "placing"
                /\ cursor' = 1
                /\ attemptCount' = 0
                /\ allCoordinates' = <<>>
                /\ placement' = <<>>
                /\ UNCHANGED <<updateCount, leftSidebar, rightSidebar, hovered,
                               failedUpdates>>
    /\ beforeFocus' = NoSnapshot
    /\ UNCHANGED <<randomVars, transformVars, enumerated>>

\* One iteration of the do-while loop of generateBlipCoordinates for the
\* blip at the cursor: two values of Math.random(), the candidate, the
\* count, the break test, and the loop condition. When the loop ends,
\* setBlipCoordinates stores the coordinates and goes on to the next blip.
GenerateAttempt ==
    /\ pc = "placing"
    /\ cursor <= Len(BlipPositions(radar.sectors))
    /\ LET n == Len(radar.sectors)
           at == BlipPositions(radar.sectors)[cursor]
           sector == radar.sectors[at[1]]
           ring == sector.blips[at[2]].ring
           second == (randomPos % TapeLen) + 1
           angle == RandomBetween(randomTape[randomPos],
                                  MinAngle(sector, n), MaxAngle(sector, n))
           distance == RandomBetween(randomTape[second],
                                     MinDistance(ring), MaxDistance(ring))
           coordinates == PolarToCartesian(distance, angle, HalfTurn(n))
           count == attemptCount + 1
       IN  /\ randomPos' = (second % TapeLen) + 1
           /\ IF GivesUp(count) \/ CoordinatesAreFree(coordinates, allCoordinates)
              THEN /\ radar' = [radar EXCEPT
                          !.sectors[at[1]].blips[at[2]].coordinates = coordinates]
                   /\ allCoordinates' = Append(allCoordinates, coordinates)
                   /\ placement' = Append(placement,
                          [sector |-> at[1], ring |-> ring.order,
                           angle |-> angle, distance |-> distance,
                           attempts |-> count, gaveUp |-> GivesUp(count)])
                   /\ cursor' = cursor + 1
                   /\ attemptCount' = 0
              ELSE /\ attemptCount' = count
                   /\ UNCHANGED <<radar, allCoordinates, placement, cursor>>
    /\ UNCHANGED <<updateCount, domVars, pc, randomTape, hostVars, transformVars,
                   pointerVars, enumVars>>

\* update after setBlipCoordinates: plotBlips, plotLeftSidebar,
\* plotRightSidebar, updateCount++.
UpdateFinish ==
    /\ pc = "placing"
    /\ cursor > Len(BlipPositions(radar.sectors))
    /\ svg' = [svg EXCEPT !.blips = PlotBlips(radar)]
    /\ leftSidebar' = PlotLeftSidebar(leftSidebar, radar)
    /\ rightSidebar' = PlotRightSidebar(rightSidebar)
    /\ updateCount' = updateCount + 1
    /\ pc' = "idle"
    /\ hovered' = 0
    /\ UNCHANGED <<radar, focused, cursor, attemptCount, allCoordinates, placement,
                   randomVars, hostVars, transformVars, beforeFocus, enumVars>>

(***************************************************************************)
(* Handlers (visual.ts 339-363, 426-433).                                  *)
(***************************************************************************)
\* The click handler of the button of the g-th group of the left sidebar.
ClickSectorButton(g) ==
    /\ pc = "idle"
    /\ g \in 1..Len(leftSidebar.groups)
    /\ leftSidebar' =
          [CollapseSidebarLists(leftSidebar) EXCEPT !.groups[g].display = "block"]
    /\ lastEvent' = [kind |-> "click", arg |-> g]
    /\ beforeFocus' = NoSnapshot
    /\ UNCHANGED <<radar, updateCount, svg, rightSidebar, focused, loopVars,
                   randomVars, thrown, updateCalls, transformVars, hovered, enumVars>>

\* What is drawn when a handler of the given kind begins for the blip at a
\* flat position: the children of the SVG and of the left sidebar.
Snapshot(kind, arg) ==
    [taken |-> TRUE, kind |-> kind, arg |-> arg, svg |-> svg, leftSidebar |-> leftSidebar]

\* The snapshot, kept only while the handler that ran last is the one of
\* the given kind that took it.
KeptSnapshot(kind) ==
    IF beforeFocus.taken /\ beforeFocus.kind = kind /\ lastEvent.kind = kind
    THEN beforeFocus ELSE NoSnapshot

\* The label the focus handler appends: a text, and a rect inserted before it.
BlipLabel(r, blip) ==
    <<[tag |-> "rect", fill |-> SectorNamed(r, blip.sector).colour, text |-> ""],
      [tag |-> "text", fill |-> "white", text |-> blip.name]>>

\* The focus handler of the i-th blip marker.
FocusBlipMarker(i) ==
    /\ pc = "idle"
    /\ focused = 0
    /\ i \in 1..Len(svg.blips)
    /\ focused' = i
    /\ leftSidebar' = CollapseSidebarLists(leftSidebar)
    /\ svg' = [svg EXCEPT !.text = BlipLabel(radar, RadarBlips(radar)[i]) \o @]
    /\ lastEvent' = [kind |-> "focus", arg |-> i]
    /\ beforeFocus' = Snapshot("focus", i)
    /\ UNCHANGED <<radar, updateCount, rightSidebar, loopVars, randomVars,
                   thrown, updateCalls, transformVars, hovered, enumVars>>

\* The focusout handler of the marker that holds the focus.
FocusOutBlipMarker ==
    /\ pc = "idle"
    /\ focused # 0
    /\ focused' = 0
    /\ svg' = [svg EXCEPT !.text = <<>>]
    /\ lastEvent' = [kind |-> "focusout", arg |-> focused]
    /\ beforeFocus' = KeptSnapshot("focus")
    /\ UNCHANGED <<radar, updateCount, leftSidebar, rightSidebar, loopVars,
                   randomVars, thrown, updateCalls, transformVars, hovered, enumVars>>

(***************************************************************************)
(* focusBlip, defocusBlip and the pointer handlers of the sidebar rows     *)
(* (visual.ts 375-398, 439-449).                                           *)
(***************************************************************************)
\* The position in radar.blips of the j-th blip of the g-th sector.
RECURSIVE FlatIndex(_, _, _)
FlatIndex(sectors, g, j) ==
    IF g = 1 THEN j ELSE Len(sectors[1].blips) + FlatIndex(Tail(sectors), g - 1, j)

\* selection.select(".blip-<id>") on the left sidebar: the first row, in
\* document order, of that class; <<0, 0>> when there is none.
SelectRow(sidebar, id) ==
    LET holds(g) == \E j \in 1..Len(sidebar.groups[g].items) :
                        sidebar.groups[g].items[j].class = id
        gs == {g \in 1..Len(sidebar.groups) : holds(g)}
    IN  IF gs = {} THEN <<0, 0>>
        ELSE LET g == CHOOSE x \in gs : \A y \in gs : x <= y
                 js == {j \in 1..Len(sidebar.groups[g].items) :
                           sidebar.groups[g].items[j].class = id}
             IN  <<g, CHOOSE x \in js : \A y \in js : x <= y>>

\* .style({background: ...}) on the selected row; nothing on an empty selection.
StyleRow(sidebar, id, background) ==
    LET at == SelectRow(sidebar, id)
    IN  IF at = <<0, 0>> THEN sidebar
        ELSE [sidebar EXCEPT !.groups[at[1]].items[at[2]].background = background]

\* select("#blip-description").html(...); nothing when the panel is absent.
DescriptionHtml(sidebar, html) ==
    [sidebar EXCEPT !.description = [k \in 1..Len(@) |-> html]]

\* svg.select(".blip-<id> circle").attr("r", ...): the first marker of that class.
MarkerRadius(svgChildren, id, r) ==
    LET is == {i \in 1..Len(svgChildren.blips) : svgChildren.blips[i].class = id}
    IN  IF is = {} THEN svgChildren
        ELSE [svgChildren EXCEPT
                 !.blips[CHOOSE x \in is : \A y \in is : x <= y].r = r]

FocusedRadius == (CalculateBlipRadius * DistScale * 3) \div 2

\* focusBlip(blip): the row's background, the description, the marker's radius.
FocusBlip(blip) ==
    /\ leftSidebar' = DescriptionHtml(StyleRow(leftSidebar, blip.id, blip.ring.colour),
                                      blip.description)
    /\ svg' = MarkerRadius(svg, blip.id, FocusedRadius)

\* defocusBlip(blip)
DefocusBlip(blip) ==
    /\ leftSidebar' = DescriptionHtml(StyleRow(leftSidebar, blip.id, "none"), "")
    /\ svg' = MarkerRadius(svg, blip.id, CalculateBlipRadius * DistScale)

\* The mouseover handler of the j-th row of the g-th group; the pointer can
\* only be over a row of a list that is displayed.
MouseOverRow(g, j) ==
    /\ pc = "idle"
    /\ hovered = 0
    /\ g \in 1..Len(leftSidebar.groups)
    /\ j \in 1..Len(leftSidebar.groups[g].items)
    /\ leftSidebar.groups[g].display = "block"
    /\ FocusBlip(radar.sectors[g].blips[j])
    /\ hovered' = FlatIndex(radar.sectors, g, j)
    /\ beforeFocus' = Snapshot("mouseover", FlatIndex(radar.sectors, g, j))
    /\ lastEvent' = [kind |-> "mouseover", arg |-> FlatIndex(radar.sectors, g, j)]
    /\ UNCHANGED <<radar, updateCount, rightSidebar, focused, loopVars, randomVars,
                   thrown, updateCalls, transformVars, enumVars>>

\* The mouseout handler of the row under the pointer.
MouseOutRow ==
    /\ pc = "idle"
    /\ hovered # 0
    /\ DefocusBlip(RadarBlips(radar)[hovered])
    /\ hovered' = 0
    /\ lastEvent' = [kind |-> "mouseout", arg |-> hovered]
    /\ beforeFocus' = KeptSnapshot("mouseover")
    /\ UNCHANGED <<radar, updateCount, rightSidebar, focused, loopVars, randomVars,
                   thrown, updateCalls, transformVars, enumVars>>

(***************************************************************************)
(* enumerateObjectInstances (visual.ts 523-546).                           *)
(***************************************************************************)
\* The descriptor pushed for a sector.
ObjectInstance(objectName, sector) ==
    [objectName |-> objectName, displayName |-> sector.name,
     fill |-> sector.colour, selector |-> sector.id]

\* What enumerateObjectInstances gives: this.radar.sectors is read for
\* colourSelector only, and is a TypeError while this.radar is undefined.
EnumerateObjectInstances(r, objectName) ==
    IF objectName # "colourSelector"
    THEN [called |-> TRUE, thrown |-> FALSE, instances |-> <<>>]
    ELSE IF ~r.defined
    THEN [called |-> TRUE, thrown |-> TRUE, instances |-> <<>>]
    ELSE [called |-> TRUE, thrown |-> FALSE,
          instances |-> [i \in 1..Len(r.sectors) |->
                            ObjectInstance(objectName, r.sectors[i])]]

ObjectNames == {"colourSelector", "general"}

\* A call of enumerateObjectInstances by the host.
Enumerate(objectName) ==
    /\ pc = "idle"
    /\ enumerated' = EnumerateObjectInstances(radar, objectName)
    /\ lastEvent' = [kind |-> "enumerate", arg |-> objectName]
    /\ UNCHANGED <<radar, updateCount, domVars, loopVars, randomVars, thrown,
                   updateCalls, transformVars, pointerVars, failedUpdates>>

(***************************************************************************)
(* Spec: the life of one visual.                                           *)
(***************************************************************************)
\* The <<sector, ring>> cells of the rows handed to update in Spec.
SectorRingPairsS ==
    {<<"X", "Accelerate">>, <<"X", "Pause">>, <<"Y", "Accelerate">>, <<"Y", "Unknown">>}

\* The data views of up to n rows handed to update in Spec.
UpdateDataViews(n) ==
    {DataView(c, rs, o) :
        c \in {AllRoles, RolesWithoutRing},
        rs \in RecordsUpTo(n, SectorRingPairsS),
        o \in {NoObjects}}

\* The random sources of Spec: all values 0, and the values 0, 1, ... in turn.
TapesS == {[i \in 1..TapeLen |-> 0], [i \in 1..TapeLen |-> (i - 1) % RandomSteps]}

Init ==
    /\ Constructed
    /\ randomTape \in TapesS
    /\ tInput = NoDataView
    /\ tResult = NotRun

Update == \E dataView \in UpdateDataViews(MaxRows) : UpdateBegin(dataView)

Click == \E g \in 1..MaxRows : ClickSectorButton(g)

Focus == \E i \in 1..MaxRows : FocusBlipMarker(i)

Next ==
    \/ Update
    \/ GenerateAttempt
    \/ UpdateFinish
    \/ Click
    \/ Focus
    \/ FocusOutBlipMarker

Spec == Init /\ [][Next]_vars

(***************************************************************************)
(* SpecLayout: one update of a radar of up to MaxSectorsL sectors, whose   *)
(* blips all lie in one ring, one per sector and possibly MaxExtraL more   *)
(* in the first sector; the random source is any tape.                     *)
(***************************************************************************)
SectorNamesL ==
    <<"S01", "S02", "S03", "S04", "S05", "S06", "S07", "S08", "S09", "S10",
      "S11", "S12", "S13", "S14", "S15", "S16", "S17", "S18", "S19", "S20">>

BlipNamesL ==
    <<"B01", "B02", "B03", "B04", "B05", "B06", "B07", "B08", "B09", "B10",
      "B11", "B12", "B13", "B14", "B15", "B16", "B17", "B18", "B19", "B20",
      "B21", "B22", "B23", "B24">>

MaxExtraL == 2

\* The numbers of sectors: the small ones and the largest ones.
SectorCountsL(m) == {n \in 1..m : n <= 4 \/ n >= m - 2}

LayoutRecords(n, extra, ringName) ==
    [i \in 1..(n + extra) |->
        [name |-> BlipNamesL[i], description |-> BlipNamesL[i],
         sector |-> IF i <= n THEN SectorNamesL[i] ELSE SectorNamesL[1],
         ring |-> ringName, isNew |-> "false"]]

\* The data views of SpecLayout, of up to m sectors.
LayoutDataViews(m) ==
    {DataView(AllRoles, LayoutRecords(n, extra, ringName), NoObjects) :
        n \in SectorCountsL(m), extra \in {0, MaxExtraL}, ringName \in RingNames}

InitLayout ==
    /\ Constructed
    /\ randomTape \in Tapes
    /\ tInput = NoDataView
    /\ tResult = NotRun

UpdateLayout ==
    \E dataView \in LayoutDataViews(MaxSectorsL) : updateCalls = 0 /\ UpdateBegin(dataView)

NextLayout ==
    \/ UpdateLayout
    \/ GenerateAttempt
    \/ UpdateFinish

SpecLayout == InitLayout /\ [][NextLayout]_vars

(***************************************************************************)
(* SpecTransform: transformData applied to one data view.                  *)
(***************************************************************************)
InitTransform ==
    /\ Constructed
    /\ randomTape = [i \in 1..TapeLen |-> 0]
    /\ tInput \in TransformDataViews(MaxRowsT)
    /\ tResult = NotRun

Transform ==
    /\ ~tResult.done
    /\ tResult' = [done |-> TRUE,
                   thrown |-> TransformData(tInput).thrown,
                   radar |-> TransformData(tInput).radar,
                   calls |-> TransformData(tInput).calls]
    /\ UNCHANGED <<radar, updateCount, domVars, loopVars, randomVars, hostVars, tInput,
                   pointerVars, enumVars>>

NextTransform == Transform

SpecTransform == InitTransform /\ [][NextTransform]_vars

(***************************************************************************)
(* SpecInteract: updates of a visual of up to MaxRows blips, with the      *)
(* pointer and focus handlers and the host's enumeration calls in between. *)
(***************************************************************************)
SectorRingPairsI == {<<"X", "Accelerate">>, <<"Y", "Pause">>, <<"Y", "Unknown">>}

\* The data views of up to n rows handed to update in SpecInteract.
InteractDataViews(n) ==
    {DataView(AllRoles, rs, NoObjects) : rs \in RecordsUpTo(n, SectorRingPairsI)}

InitInteract ==
    /\ Constructed
    /\ randomTape = [i \in 1..TapeLen |-> 0]
    /\ tInput = NoDataView
    /\ tResult = NotRun

UpdateInteract == \E dataView \in InteractDataViews(MaxRows) : UpdateBegin(dataView)

MouseOver == \E g \in 1..MaxRows, j \in 1..MaxRows : MouseOverRow(g, j)

EnumerateInstances == \E objectName \in ObjectNames : Enumerate(objectName)

NextInteract ==
    \/ UpdateInteract
    \/ GenerateAttempt
    \/ UpdateFinish
    \/ Click
    \/ MouseOver
    \/ MouseOutRow
    \/ Focus
    \/ FocusOutBlipMarker
    \/ EnumerateInstances

SpecInteract == InitInteract /\ [][NextInteract]_vars

(***************************************************************************)
(* Claims about transformData, checked under SpecTransform.                *)
(***************************************************************************)
\* The cell of row i of a data view under a role.
FieldOf(dv, i, role) == Cell(dv.rows[i], IndexOf(dv.columns, role))

HasAllRoles(dv) == Range(dv.columns) = Range(AllRoles)

AllRingsKnown(dv) ==
    \A i \in 1..Len(dv.rows) : FieldOf(dv, i, "ring") \in RingNames

\* The store is absent, or holds a colourSelector with its $instances.
StoreWellFormed(dv) == dv.objects.present => dv.objects.colourSelector

NoInheritedSectorName(dv) ==
    \A i \in 1..Len(dv.rows) : FieldOf(dv, i, "sector") \notin ObjectPrototypeNames

\* The rows (by position) of a data view whose rings are all known, in
\* ascending ring order, rows of one ring in their original order.
RECURSIVE RowsOfRingsUpTo(_, _)
RowsOfRingsUpTo(dv, k) ==
    IF k = 0 THEN <<>>
    ELSE RowsOfRingsUpTo(dv, k - 1)
            \o SelectSeq([i \in 1..Len(dv.rows) |-> i],
                         LAMBDA i : ringMap[FieldOf(dv, i, "ring")].order = k)

RowsInRingOrder(dv) == RowsOfRingsUpTo(dv, Len(RadarRings))

\* A sequence without its repetitions: the first appearance of each value.
RECURSIVE FirstAppearances(_)
FirstAppearances(s) ==
    IF s = <<>> THEN <<>>
    ELSE LET f == FirstAppearances(Front(s))
         IN  IF Last(s) \in Range(f) THEN f ELSE Append(f, Last(s))

SectorValuesInRingOrder(dv) ==
    [j \in 1..Len(dv.rows) |-> FieldOf(dv, RowsInRingOrder(dv)[j], "sector")]

SectorNamesOf(r) == [i \in 1..Len(r.sectors) |-> r.sectors[i].name]

\* The rows the claims C1, C6, C7 and C8 are read on: nothing else about the
\* data view is out of the ordinary.
KnownRingRows(dv) ==
    {i \in 1..Len(dv.rows) : FieldOf(dv, i, "ring") \in RingNames}

\* C1: a row whose ring name is not one of the four rings is left out of the
\* Radar and every other row is processed: transformData does not abort and
\* the Radar holds exactly one blip per row with a known ring name.
C1_UnknownRingRowSkipped ==
    (/\ tResult.done
     /\ HasAllRoles(tInput)
     /\ StoreWellFormed(tInput)
     /\ NoInheritedSectorName(tInput))
        => /\ ~tResult.thrown
           /\ Len(RadarBlips(tResult.radar)) = Cardinality(KnownRingRows(tInput))

\* C6: the sectors of the Radar are in the order in which the sector values
\* first appear in the rows sorted by ring order, whatever the names are.
C6_SectorsInFirstAppearanceOrder ==
    (tResult.done /\ ~tResult.thrown)
        => SectorNamesOf(tResult.radar)
              = FirstAppearances(SectorValuesInRingOrder(tInput))

\* The <<name, ring>> pairs of the rows carrying a sector value, in ring order.
RowsOfSector(dv, sectorName) ==
    LET rows == SelectSeq(RowsInRingOrder(dv),
                          LAMBDA i : FieldOf(dv, i, "sector") = sectorName)
    IN  [j \in 1..Len(rows) |->
            <<FieldOf(dv, rows[j], "name"), FieldOf(dv, rows[j], "ring")>>]

BlipsOfSector(sector) ==
    [j \in 1..Len(sector.blips) |->
        <<sector.blips[j].name, sector.blips[j].ring.name>>]

\* C7: when every row names a known ring, transformData makes exactly one
\* Sector per distinct sector value, and each Sector holds exactly the blips
\* of the rows carrying its value, by ascending ring order, rows of one ring
\* in their original order.
C7_OneSectorPerValue ==
    (/\ tResult.done
     /\ HasAllRoles(tInput)
     /\ StoreWellFormed(tInput)
     /\ AllRingsKnown(tInput))
        => /\ ~tResult.thrown
           /\ Range(SectorNamesOf(tResult.radar))
                 = Range(SectorValuesInRingOrder(tInput))
           /\ Len(tResult.radar.sectors)
                 = Cardinality(Range(SectorValuesInRingOrder(tInput)))
           /\ \A i \in 1..Len(tResult.radar.sectors) :
                 BlipsOfSector(tResult.radar.sectors[i])
                    = RowsOfSector(tInput, tResult.radar.sectors[i].name)

HasStoredColour(dv, id) ==
    dv.objects.present /\ dv.objects.colourSelector /\ id \in DOMAIN dv.objects.instances

\* C8: in one pass every new Sector with a stored colour gets that colour
\* without a call of the generator, every other one gets the colour of one
\* call of its own, whatever the shape of the customization store: absent,
\* present without any stored sector colour, or holding some colours.
C8_StoredColourElseGenerated ==
    (/\ tResult.done
     /\ HasAllRoles(tInput)
     /\ AllRingsKnown(tInput)
     /\ NoInheritedSectorName(tInput))
        => LET ss == tResult.radar.sectors
               fresh == {i \in 1..Len(ss) : ~HasStoredColour(tInput, ss[i].id)}
           IN  /\ ~tResult.thrown
               /\ \A i \in (1..Len(ss)) \ fresh :
                     ss[i].colour = tInput.objects.instances[ss[i].id]
               /\ tResult.calls = Cardinality(fresh)
               /\ {ss[i].colour : i \in fresh}
                     = {GetColour(k) : k \in 1..tResult.calls}
               /\ Cardinality({ss[i].colour : i \in fresh}) = Cardinality(fresh)

(***************************************************************************)
(* Claims about update and the handlers, checked under Spec.               *)
(***************************************************************************)
\* C2: no call of update lets an exception reach the host, whatever the data
\* view: columns lacking a role, rows naming an unknown ring, no rows.
C2_UpdateNeverThrows == ~thrown

\* The lists of the left sidebar that are displayed.
VisibleLists == {g \in 1..Len(leftSidebar.groups) : leftSidebar.groups[g].display # "none"}

\* C9: once update has run, what is drawn is the drawing of the radar the
\* visual holds and nothing else: one group per sector with one wedge per
\* ring, one marker per blip, one sidebar group per sector with one row per
\* blip, one legend entry per ring in ring order.
C9_DrawnContentIsLatestRadar ==
    (pc = "idle" /\ updateCount > 0)
        => /\ Len(svg.sectors) = Len(radar.sectors)
           /\ \A i \in 1..Len(svg.sectors) :
                 /\ svg.sectors[i].id = radar.sectors[i].id
                 /\ Len(svg.sectors[i].paths) = 4
                 /\ \A k \in 1..Len(svg.sectors[i].paths) :
                       /\ svg.sectors[i].paths[k].fill = RadarRings[k].colour
                       /\ svg.sectors[i].paths[k].startAngle = radar.sectors[i].startAngle
                       /\ svg.sectors[i].paths[k].endAngle = radar.sectors[i].endAngle
           /\ Len(svg.blips) = Len(RadarBlips(radar))
           /\ \A i \in 1..Len(svg.blips) : svg.blips[i].class = RadarBlips(radar)[i].id
           /\ Len(leftSidebar.groups) = Len(radar.sectors)
           /\ \A g \in 1..Len(leftSidebar.groups) :
                 /\ leftSidebar.groups[g].id = radar.sectors[g].id
                 /\ Len(leftSidebar.groups[g].items) = Len(radar.sectors[g].blips)
                 /\ \A j \in 1..Len(leftSidebar.groups[g].items) :
                       leftSidebar.groups[g].items[j].text = radar.sectors[g].blips[j].name
           /\ [k \in 1..Len(rightSidebar) |-> rightSidebar[k].text]
                 = <<"Accelerate", "Progress", "Monitor", "Pause">>

\* C9's case: a second update has replaced a drawing of two sectors by one
\* of a single sector with a single blip.
C9_Witness ==
    /\ pc = "idle"
    /\ updateCount = 2
    /\ Len(radar.sectors) = 1
    /\ Len(svg.sectors) = 1
    /\ Len(svg.blips) = 1
    /\ Len(leftSidebar.groups) = 1

\* C10 as stated: at most one list of the left sidebar is visible; after a
\* click on a sector's button exactly that sector's list is; right after an
\* update none is.
C10_AtMostOneListVisible ==
    pc = "idle"
        => /\ Cardinality(VisibleLists) <= 1
           /\ lastEvent.kind = "click" => VisibleLists = {lastEvent.arg}
           /\ lastEvent.kind = "update" => VisibleLists = {}

\* C10 restricted to updates that complete: at most one list of the left
\* sidebar is visible; after a click on a sector's button exactly that
\* sector's list is; right after an update that did not throw in
\* transformData none is.  (C10 as stated fails only after a throwing update.)
C10_AtMostOneListVisibleUnlessUpdateFailed ==
    pc = "idle"
        => /\ Cardinality(VisibleLists) <= 1
           /\ lastEvent.kind = "click" => VisibleLists = {lastEvent.arg}
           /\ (lastEvent.kind = "update" /\ ~thrown) => VisibleLists = {}

\* C10's case: of the two groups of the sidebar the second one's button was
\* clicked, and its list is the one displayed.
C10_Witness ==
    /\ pc = "idle"
    /\ Len(leftSidebar.groups) = 2
    /\ lastEvent = [kind |-> "click", arg |-> 2]
    /\ leftSidebar.groups[2].display = "block"
    /\ leftSidebar.groups[1].display = "none"

(***************************************************************************)
(* Claims about the placement of blips, checked under SpecLayout.          *)
(***************************************************************************)
\* The distance of a placed blip is strictly inside its ring.
StrictlyInsideRing(p) ==
    /\ p.distance > CalculateRingRadii(RadarRings[p.ring]).inner
    /\ p.distance < CalculateRingRadii(RadarRings[p.ring]).outer

\* The angle of a placed blip is strictly inside its sector, at least pi/16
\* from both of its boundaries.
InsideSectorWithMargin(p) ==
    LET sector == radar.sectors[p.sector]
        margin == PiOver16(Len(radar.sectors))
    IN  /\ sector.startAngle < p.angle
        /\ p.angle < sector.endAngle
        /\ p.angle - sector.startAngle >= margin
        /\ sector.endAngle - p.angle >= margin

C4_ApartUnlessGaveUp ==
    \A j \in 1..Len(placement) : \A i \in 1..(j - 1) :
        \/ DistanceBetweenPointsSquared(allCoordinates[i], allCoordinates[j])
              > FreeDistance * FreeDistance
        \/ placement[j].gaveUp

\* C4's case: a blip whose first candidates overlapped was placed, before
\* giving up, clear of the blips placed earlier.
C4_Witness ==
    \E j \in 2..Len(placement) :
        /\ placement[j].attempts > 1
        /\ ~placement[j].gaveUp
        /\ Len(allCoordinates) >= j

\* C5: generateBlipCoordinates draws at most 10 candidates for a blip.
C5_AtMostTenCandidates ==
    /\ attemptCount <= 10
    /\ \A i \in 1..Len(placement) : placement[i].attempts <= 10

(***************************************************************************)
(* Claims about focus, defocus and enumeration, checked under SpecInteract.*)
(***************************************************************************)
\* The rows of the left sidebar, in document order.
RECURSIVE SidebarRows(_)
SidebarRows(groups) ==
    IF groups = <<>> THEN <<>> ELSE SidebarRows(Front(groups)) \o Last(groups).items

Highlighted(row) == row.background \notin {"", "none"}

\* C11: after a blip received focus, by mouseover on its sidebar row or by
\* focus on its marker, its marker has 1.5 times the blip radius, the
\* floating label shows its name on its sector's colour, the description
\* panel shows its description and its sidebar row has its ring's colour.
C11_FocusHasAllFourEffects ==
    (pc = "idle" /\ lastEvent.kind \in {"mouseover", "focus"})
        => LET blip == RadarBlips(radar)[lastEvent.arg]
           IN  /\ svg.blips[lastEvent.arg].r = FocusedRadius
               /\ svg.text = BlipLabel(radar, blip)
               /\ leftSidebar.description = <<blip.description>>
               /\ SidebarRows(leftSidebar.groups)[lastEvent.arg].background
                      = blip.ring.colour

\* What is presented: the SVG's children, and the left sidebar with a
\* background of none read as no background.
Presentation(svgChildren, sidebar) ==
    [svg |-> svgChildren,
     description |-> sidebar.description,
     groups |-> [g \in 1..Len(sidebar.groups) |->
                   [sidebar.groups[g] EXCEPT !.items =
                       [j \in 1..Len(@) |->
                           [@[j] EXCEPT !.background = IF @ = "none" THEN "" ELSE @]]]]]

\* The defocus that ran last matches the focus the snapshot was taken for.
MatchingDefocus ==
    /\ beforeFocus.taken
    /\ beforeFocus.arg = lastEvent.arg
    /\ \/ beforeFocus.kind = "focus" /\ lastEvent.kind = "focusout"
       \/ beforeFocus.kind = "mouseover" /\ lastEvent.kind = "mouseout"

\* C12: after a focused blip was defocused (mouseout of its sidebar row or
\* focusout of its marker) its marker has the base radius, there is no
\* floating label, the description panel is empty and no sidebar row is
\* highlighted; and what is presented is what was presented before the focus.
C12_DefocusRestoresPresentation ==
    (pc = "idle" /\ lastEvent.kind \in {"mouseout", "focusout"})
        => /\ svg.blips[lastEvent.arg].r = CalculateBlipRadius * DistScale
           /\ svg.text = <<>>
           /\ leftSidebar.description = <<"">>
           /\ \A k \in 1..Len(SidebarRows(leftSidebar.groups)) :
                  ~Highlighted(SidebarRows(leftSidebar.groups)[k])
           /\ MatchingDefocus
                  => Presentation(svg, leftSidebar)
                        = Presentation(beforeFocus.svg, beforeFocus.leftSidebar)

\* C13: a call of enumerateObjectInstances, before the first update or after
\* any updates, returns for colourSelector one descriptor per sector of the
\* radar, in sector order, with the sector's name and colour, and for any
\* other object name the empty list.
C13_EnumerateGivesSectors ==
    lastEvent.kind = "enumerate"
        => /\ ~enumerated.thrown
           /\ IF lastEvent.arg = "colourSelector"
              THEN /\ Len(enumerated.instances) = Len(radar.sectors)
                   /\ \A i \in 1..Len(radar.sectors) :
                          /\ enumerated.instances[i].displayName = radar.sectors[i].name
                          /\ enumerated.instances[i].fill = radar.sectors[i].colour
              ELSE enumerated.instances = <<>>

(***************************************************************************)
(* Claims about failed updates, checked under Spec.                        *)
(***************************************************************************)
\* C14: a call of update that fails in transformData leaves the radar, the
\* drawn sectors, blips and sidebars and updateCount as they were, and
\* updateCount is the number of updates that ran to completion.
C14_FailedUpdateLeavesState ==
    /\ [](pc = "idle" => updateCount = updateCalls - failedUpdates)
    /\ [][failedUpdates' # failedUpdates
              => UNCHANGED <<radar, updateCount, svg, leftSidebar, rightSidebar>>]_vars

\* C14's case: after an update that drew a blip, an update failed.
C14_Witness ==
    /\ pc = "idle"
    /\ lastEvent.kind = "update"
    /\ thrown
    /\ failedUpdates = 1
    /\ updateCount = 1
    /\ Len(svg.blips) >= 1
    /\ Len(leftSidebar.groups) >= 1

====
